---- MODULE Spec2Model ----
(***************************************************************************)
(* Tire-size parsing and container-capacity estimation of the tire         *)
(* simulator: app/utils.py (parse_tire_size, estimate_geometry_and_cbm,    *)
(* estimate_units_per_container), app/main.py (calculate_tire_cbm and the  *)
(* container-unit part of analysis) and the product construction of        *)
(* seed_lassa_products.py.                                                 *)
(*                                                                         *)
(* Strings are sequences of one-character strings.  A Python float is an   *)
(* exact rational over arbitrary-size naturals (sequences of limbs).  The  *)
(* geometry and volume formulas are evaluated exactly: the rounding of     *)
(* their intermediate products and sums (below one unit in the last place) *)
(* is not modelled.  Where a float decides a whole number it is modelled   *)
(* to the bit: a volume stored in or returned as a float (Product.tire_cbm,*)
(* the result of round(x, 3)) is the nearest IEEE-754 double (ToDouble),   *)
(* true division "/" rounds its quotient to the nearest double, floor      *)
(* division "//" is the floor of the exact quotient.                       *)
(***************************************************************************)
EXTENDS Integers, Sequences, FiniteSets, TLC

(***************************************************************************)
(* Optional values: Python None and a present value.                       *)
(***************************************************************************)
None == <<>>
Some(x) == <<x>>
Val(o) == o[1]

(***************************************************************************)
(* Characters and the str methods the parsers use.                         *)
(***************************************************************************)
DigitChars == <<"0", "1", "2", "3", "4", "5", "6", "7", "8", "9">>
LowerChars == <<"a", "b", "c", "d", "e", "f", "g", "h", "i", "j", "k", "l", "m",
                "n", "o", "p", "q", "r", "s", "t", "u", "v", "w", "x", "y", "z">>
UpperChars == <<"A", "B", "C", "D", "E", "F", "G", "H", "I", "J", "K", "L", "M",
                "N", "O", "P", "Q", "R", "S", "T", "U", "V", "W", "X", "Y", "Z">>

\* Index of c in the sequence t, 0 when absent.
IndexOf(t, c) == IF \E i \in 1..Len(t) : t[i] = c
                 THEN CHOOSE i \in 1..Len(t) : t[i] = c
                 ELSE 0

\* \d of the re module.
IsDigit(c) == IndexOf(DigitChars, c) # 0
DigitVal(c) == IndexOf(DigitChars, c) - 1

\* \s of the re module and the characters str.strip() removes.
IsSpace(c) == c \in {" ", "\t"}

\* str.upper() on one character.
UpperChar(c) == IF IndexOf(LowerChars, c) # 0 THEN UpperChars[IndexOf(LowerChars, c)] ELSE c

\* str.upper()
StrUpper(s) == [i \in 1..Len(s) |-> UpperChar(s[i])]

\* str.strip(): drops leading and trailing whitespace.
RECURSIVE LStrip(_)
LStrip(s) == IF s # <<>> /\ IsSpace(Head(s)) THEN LStrip(Tail(s)) ELSE s
RECURSIVE RStrip(_)
RStrip(s) == IF s # <<>> /\ IsSpace(s[Len(s)]) THEN RStrip(SubSeq(s, 1, Len(s) - 1)) ELSE s
Strip(s) == RStrip(LStrip(s))

\* str.replace(" ", ""): drops the space character only.
IsNotBlank(c) == c # " "
RemoveSpaces(s) == SelectSeq(s, IsNotBlank)

(***************************************************************************)
(* Regular-expression pieces, matched from position i of s.                *)
(***************************************************************************)
\* The character at position i, "" past the end.
At(s, i) == IF i >= 1 /\ i <= Len(s) THEN s[i] ELSE ""

\* A pattern without \s*: whitespace is not skipped.
SkipWsNever(s, i) == i

\* \s* from position i: the position after the whitespace run.
RECURSIVE SkipWs(_, _)
SkipWs(s, i) == IF i <= Len(s) /\ IsSpace(s[i]) THEN SkipWs(s, i + 1) ELSE i

\* \d{n} at position i.
DigitsAt(s, i, n) == i + n - 1 <= Len(s) /\ \A j \in i..(i + n - 1) : IsDigit(s[j])

\* int() of a digit string.
RECURSIVE IntOf(_)
IntOf(ds) == IF ds = <<>> THEN 0 ELSE 10 * IntOf(SubSeq(ds, 1, Len(ds) - 1)) + DigitVal(ds[Len(ds)])

\* re.match(r"^\s*(\d{3})\s*/\s*(\d{2})\s*R?\s*(\d{2})\s*$", s): the three
\* groups, or None.
ReMetricUtils(s) ==
  LET p1 == SkipWs(s, 1)
      p2 == SkipWs(s, p1 + 3)
      p3 == SkipWs(s, p2 + 1)
      p4 == SkipWs(s, p3 + 2)
      p5 == IF At(s, p4) = "R" THEN p4 + 1 ELSE p4
      p6 == SkipWs(s, p5)
      p7 == SkipWs(s, p6 + 2)
  IN IF /\ DigitsAt(s, p1, 3)
        /\ At(s, p2) = "/"
        /\ DigitsAt(s, p3, 2)
        /\ DigitsAt(s, p6, 2)
        /\ p7 = Len(s) + 1
     THEN Some(<<SubSeq(s, p1, p1 + 2), SubSeq(s, p3, p3 + 1), SubSeq(s, p6, p6 + 1)>>)
     ELSE None

\* re.match(r"^\s*(\d{2})\.(\d)\s*-\s*(\d{2})\s*$", s)
ReImperialUtils(s) ==
  LET p1 == SkipWs(s, 1)
      p2 == SkipWs(s, p1 + 4)
      p3 == SkipWs(s, p2 + 1)
      p4 == SkipWs(s, p3 + 2)
  IN IF /\ DigitsAt(s, p1, 2)
        /\ At(s, p1 + 2) = "."
        /\ DigitsAt(s, p1 + 3, 1)
        /\ At(s, p2) = "-"
        /\ DigitsAt(s, p3, 2)
        /\ p4 = Len(s) + 1
     THEN Some(<<SubSeq(s, p1, p1 + 1), SubSeq(s, p1 + 3, p1 + 3), SubSeq(s, p3, p3 + 1)>>)
     ELSE None

\* re.match(r"(\d{3})/(\d{2})R(\d{2})", s): anchored at the start only.
ReMetricMain(s) ==
  IF /\ DigitsAt(s, 1, 3)
     /\ At(s, 4) = "/"
     /\ DigitsAt(s, 5, 2)
     /\ At(s, 7) = "R"
     /\ DigitsAt(s, 8, 2)
  THEN Some(<<SubSeq(s, 1, 3), SubSeq(s, 5, 6), SubSeq(s, 8, 9)>>)
  ELSE None

\* re.match(r"(\d{1,2}(\.\d)?)-(\d{2})", s): groups 1 and 3.  \d{1,2} is
\* greedy, and giving a digit back never helps: the next character would be
\* a digit, which is neither "." nor "-".
ReImperialMain(s) ==
  LET n == IF DigitsAt(s, 1, 2) THEN 2 ELSE 1
      f == IF At(s, n + 1) = "." /\ DigitsAt(s, n + 2, 1) THEN 2 ELSE 0
      p == n + f + 1
  IN IF DigitsAt(s, 1, 1) /\ At(s, p) = "-" /\ DigitsAt(s, p + 1, 2)
     THEN Some(<<SubSeq(s, 1, n + f), SubSeq(s, p + 1, p + 2)>>)
     ELSE None

(***************************************************************************)
(* Natural numbers of any size: little-endian sequences of limbs below     *)
(* BASE, no leading zero limb, <<>> for zero.  They carry the numerators   *)
(* and denominators of float values, which exceed 32 bits.                 *)
(***************************************************************************)
BASE == 2 ^ 15

RECURSIVE BNNorm(_)
BNNorm(a) == IF a = <<>> THEN a
             ELSE IF a[Len(a)] = 0 THEN BNNorm(SubSeq(a, 1, Len(a) - 1)) ELSE a

\* The natural number n (0 <= n < 2^31) as limbs.
BN(n) == BNNorm(<<n % BASE, (n \div BASE) % BASE, n \div (BASE * BASE)>>)

Limb(a, i) == IF i <= Len(a) THEN a[i] ELSE 0

RECURSIVE BNAddC(_, _, _, _)
BNAddC(a, b, i, c) ==
  IF i > Len(a) /\ i > Len(b) THEN (IF c = 0 THEN <<>> ELSE <<c>>)
  ELSE LET t == Limb(a, i) + Limb(b, i) + c
       IN <<t % BASE>> \o BNAddC(a, b, i + 1, t \div BASE)
BNAdd(a, b) == BNAddC(a, b, 1, 0)

\* a - b for a >= b.
RECURSIVE BNSubC(_, _, _, _)
BNSubC(a, b, i, c) ==
  IF i > Len(a) THEN <<>>
  ELSE LET t == Limb(a, i) - Limb(b, i) - c
       IN IF t < 0 THEN <<t + BASE>> \o BNSubC(a, b, i + 1, 1)
                   ELSE <<t>> \o BNSubC(a, b, i + 1, 0)
BNSub(a, b) == BNNorm(BNSubC(a, b, 1, 0))

\* -1, 0 or 1 as a < b, a = b or a > b.
RECURSIVE BNCmpI(_, _, _)
BNCmpI(a, b, i) == IF i = 0 THEN 0
                   ELSE IF a[i] < b[i] THEN -1
                   ELSE IF a[i] > b[i] THEN 1
                   ELSE BNCmpI(a, b, i - 1)
BNCmp(a, b) == IF Len(a) < Len(b) THEN -1
               ELSE IF Len(a) > Len(b) THEN 1
               ELSE BNCmpI(a, b, Len(a))

\* a * m for a limb m.
RECURSIVE BNMulSmallC(_, _, _, _)
BNMulSmallC(a, m, i, c) ==
  IF i > Len(a) THEN (IF c = 0 THEN <<>> ELSE <<c>>)
  ELSE LET t == a[i] * m + c
       IN <<t % BASE>> \o BNMulSmallC(a, m, i + 1, t \div BASE)
BNMulSmall(a, m) == IF m = 0 THEN <<>> ELSE BNMulSmallC(a, m, 1, 0)

\* a * BASE^k
BNShiftLimbs(a, k) == IF a = <<>> THEN a ELSE [j \in 1..k |-> 0] \o a

\* a * (the limbs i down to 1 of b) + acc * BASE^i, from the top limb down.
RECURSIVE BNMulR(_, _, _, _)
BNMulR(a, b, i, acc) ==
  IF i = 0 THEN acc
  ELSE IF acc = <<>> THEN BNMulR(a, b, i - 1, BNMulSmall(a, b[i]))
  ELSE BNMulR(a, b, i - 1, BNAdd(BNMulSmall(a, b[i]), BNShiftLimbs(acc, 1)))
BNMul(a, b) == IF a = <<>> \/ b = <<>> THEN <<>> ELSE BNMulR(a, b, Len(b), <<>>)

\* The largest q in lo..hi with q * b <= r, given lo * b <= r.
RECURSIVE QDigit(_, _, _, _)
QDigit(r, b, lo, hi) ==
  IF lo = hi THEN lo
  ELSE LET mid == (lo + hi + 1) \div 2
       IN IF BNCmp(BNMulSmall(b, mid), r) <= 0
          THEN QDigit(r, b, mid, hi)
          ELSE QDigit(r, b, lo, mid - 1)

\* Long division, one limb of the dividend at a time: <<quotient, remainder>>.
RECURSIVE BNDivI(_, _, _, _, _)
BNDivI(a, b, i, q, r) ==
  IF i = 0 THEN <<BNNorm(q), r>>
  ELSE LET r1 == BNNorm(<<a[i]>> \o r)
           d == QDigit(r1, b, 0, BASE - 1)
       IN IF d = 0 THEN BNDivI(a, b, i - 1, <<0>> \o q, r1)
          ELSE BNDivI(a, b, i - 1, <<d>> \o q, BNSub(r1, BNMulSmall(b, d)))
BNDivMod(a, b) == BNDivI(a, b, Len(a), <<>>, <<>>)

\* 2^k
RECURSIVE BNPow2(_)
BNPow2(k) == IF k < 15 THEN <<2 ^ k>> ELSE <<0>> \o BNPow2(k - 15)

RECURSIVE BitLenSmall(_)
BitLenSmall(n) == IF n = 0 THEN 0 ELSE 1 + BitLenSmall(n \div 2)
BNBitLen(a) == IF a = <<>> THEN 0 ELSE 15 * (Len(a) - 1) + BitLenSmall(a[Len(a)])

BNIsOdd(a) == a # <<>> /\ a[1] % 2 = 1

\* The value of a natural below 2^31 as an integer.
BNToInt(a) == Limb(a, 1) + BASE * Limb(a, 2) + BASE * BASE * Limb(a, 3)

(***************************************************************************)
(* Float values: rationals num/den with a sign.                            *)
(***************************************************************************)
Rat(n, d) == [neg |-> FALSE, num |-> BN(n), den |-> BN(d)]
RatNeg(x) == [x EXCEPT !.neg = (x.num # <<>>) /\ ~x.neg]

RatIsZero(x) == x.num = <<>>
RatIsPos(x) == ~x.neg /\ x.num # <<>>

\* Arithmetic on non-negative values.
RatMul(x, y) == [neg |-> FALSE, num |-> BNMul(x.num, y.num), den |-> BNMul(x.den, y.den)]
RatDiv(x, y) == [neg |-> FALSE, num |-> BNMul(x.num, y.den), den |-> BNMul(x.den, y.num)]
RatAdd(x, y) == [neg |-> FALSE,
                 num |-> BNAdd(BNMul(x.num, y.den), BNMul(y.num, x.den)),
                 den |-> BNMul(x.den, y.den)]

\* Comparison of non-negative values.
RatCmp(x, y) == BNCmp(BNMul(x.num, y.den), BNMul(y.num, x.den))
RatEq(x, y) == x.neg = y.neg /\ RatCmp(x, y) = 0
RatLe(x, y) == RatCmp(x, y) <= 0
RatLt(x, y) == RatCmp(x, y) < 0

\* An integer as a float.
RatOfInt(n) == Rat(n, 1)

\* Round-half-to-even of a quotient, from the quotient q of the division
\* and the comparison c of twice its remainder with the divisor.
RoundUpIf(q, c) == IF c > 0 \/ (c = 0 /\ BNIsOdd(q)) THEN BNAdd(q, <<1>>) ELSE q
RoundQuotient(qr, d) == RoundUpIf(qr[1], BNCmp(BNMulSmall(qr[2], 2), d))

\* Round-half-to-even of the quotient n/d of two naturals.
RoundHalfEven(n, d) == RoundQuotient(BNDivMod(n, d), d)

\* x * 2^s as a fraction of naturals, for any integer s.
ScaledNum(x, s) == BNMul(x.num, BNPow2(IF s >= 0 THEN s ELSE 0))
ScaledDen(x, s) == BNMul(x.den, BNPow2(IF s >= 0 THEN 0 ELSE 0 - s))

\* The binary scale s of a positive rational x: x * 2^s lies in
\* [2^52, 2^53), so that its integer part is a 53-bit significand.
DoubleScaleFrom(x, s0) ==
  IF BNBitLen(BNDivMod(ScaledNum(x, s0), ScaledDen(x, s0))[1]) > 53 THEN s0 - 1 ELSE s0
DoubleScale(x) == DoubleScaleFrom(x, 53 + BNBitLen(x.den) - BNBitLen(x.num))

\* The double of significand round(x * 2^s) and scale s.
DoubleAtScale(x, s) ==
  IF s >= 0
  THEN [neg |-> x.neg,
        num |-> RoundHalfEven(ScaledNum(x, s), ScaledDen(x, s)),
        den |-> BNPow2(s)]
  ELSE [neg |-> x.neg,
        num |-> BNMul(RoundHalfEven(ScaledNum(x, s), ScaledDen(x, s)), BNPow2(0 - s)),
        den |-> <<1>>]

\* The IEEE-754 double nearest to a rational x (53-bit significand, ties
\* to even; the values here are far from the subnormal and overflow
\* ranges).
ToDouble(x) == IF RatIsZero(x) THEN x ELSE DoubleAtScale(x, DoubleScale(x))

\* float("n/d") for a decimal n/d: the stored double.
FloatOfDecimal(n, d) == ToDouble(Rat(n, d))

\* int(x) of a non-negative float: truncation.
IntOfFloat(x) == BNToInt(BNDivMod(x.num, x.den)[1])

\* x / y of two positive floats: the double nearest to the quotient.
TrueDiv(x, y) == ToDouble(RatDiv(x, y))

\* The floor of a non-negative float, as a float.
Floor(q) == [neg |-> FALSE, num |-> BNDivMod(q.num, q.den)[1], den |-> <<1>>]

\* x // y of two positive floats: the floor of the exact quotient.
FloorDiv(x, y) == Floor(RatDiv(x, y))

\* round(x, 3) of a non-negative float: the double nearest to the multiple
\* of 0.001 nearest to x, ties to even.
Round3(x) ==
  ToDouble([neg |-> FALSE, num |-> RoundHalfEven(BNMulSmall(x.num, 1000), x.den), den |-> BN(1000)])

\* math.pi: the double 884279719003555 / 2^48.
PiFloat == [neg |-> FALSE,
            num |-> BNAdd(BNMul(BN(884279719), BN(1000000)), BN(3555)),
            den |-> BNPow2(48)]

\* x or 1.0: a missing volume replaced by one cubic metre.
OrOne(x) == IF x = None \/ RatIsZero(Val(x)) THEN Rat(1, 1) ELSE Val(x)

\* x or 0.0
OrZero(x) == IF x = None \/ RatIsZero(Val(x)) THEN Rat(0, 1) ELSE Val(x)

(***************************************************************************)
(* app/utils.py                                                            *)
(***************************************************************************)
\* The width converted with 2.54 (centimetres) instead of 25.4.
WidthCmOfInch(section_inch) == RatMul(section_inch, Rat(254, 100))

\* width_mm = section_inch * 25.4
WidthMmOfInch(section_inch) == RatMul(section_inch, Rat(254, 10))

\* The geometry of a metric match: the three groups as floats.
MetricGeometry(m) ==
  <<Some(RatOfInt(IntOf(m[1]))), Some(RatOfInt(IntOf(m[2]))), Some(RatOfInt(IntOf(m[3])))>>

\* The geometry of an imperial match: the width f"{group 1}.{group 2}" in
\* inches converted to mm, the rule-of-thumb aspect ratio 80.0, the rim.
ImperialGeometry(m) ==
  <<Some(WidthMmOfInch(Rat(IntOf(m[1] \o m[2]), 10))),
    Some(Rat(80, 1)),
    Some(RatOfInt(IntOf(m[3])))>>

\* The result for the matches of the two patterns: the metric pattern is
\* tried first.
ParseMatches(metric, imperial) ==
  IF metric # None THEN MetricGeometry(Val(metric))
  ELSE IF imperial # None THEN ImperialGeometry(Val(imperial))
  ELSE <<None, None, None>>

\* The two patterns applied to s = size_string.strip().upper().
ParseNormalized(s) == ParseMatches(ReMetricUtils(s), ReImperialUtils(s))

\* parse_tire_size(size_string): (section_width_mm, aspect_ratio,
\* rim_diameter_inch), each None when the label is not recognised.
parse_tire_size(size_string) ==
  IF size_string = <<>> THEN <<None, None, None>>
  ELSE ParseNormalized(StrUpper(Strip(size_string)))

\* An unrecognised label reported with a volume of 0.0 instead of None.
UnparsedGeometryZeroCbm ==
  [section_width_mm |-> None,
   aspect_ratio |-> None,
   rim_diameter_inch |-> None,
   overall_diameter_mm |-> None,
   cbm_per_tire |-> Some(Rat(0, 1))]

\* The dict estimate_geometry_and_cbm returns for an unrecognised label.
UnparsedGeometry ==
  [section_width_mm |-> None,
   aspect_ratio |-> None,
   rim_diameter_inch |-> None,
   overall_diameter_mm |-> None,
   cbm_per_tire |-> None]

\* The diameter with one sidewall instead of two.
OverallDiameterOneSidewall(width_mm, aspect_ratio, rim_inch) ==
  RatAdd(RatMul(width_mm, RatDiv(aspect_ratio, Rat(100, 1))), RatMul(rim_inch, Rat(254, 10)))

\* overall_diameter_mm = (2 * width_mm * (aspect_ratio / 100.0)) + (rim_inch * 25.4)
OverallDiameterMm(width_mm, aspect_ratio, rim_inch) ==
  RatAdd(RatMul(RatMul(Rat(2, 1), width_mm), RatDiv(aspect_ratio, Rat(100, 1))),
         RatMul(rim_inch, Rat(254, 10)))

\* pi * (radius ** 2) * height
Cylinder(radius, height) == RatMul(RatMul(PiFloat, RatMul(radius, radius)), height)

\* radius_m = (overall_diameter_mm / 1000.0) / 2.0; height_m = width_mm / 1000.0;
\* volume_m3 = pi * (radius_m ** 2) * height_m
CylinderVolumeM3(overall_diameter_mm, width_mm) ==
  Cylinder(RatDiv(RatDiv(overall_diameter_mm, Rat(1000, 1)), Rat(2, 1)),
           RatDiv(width_mm, Rat(1000, 1)))

\* packing_factor = 1.25; cbm_per_tire = volume_m3 * packing_factor
PackedVolume(volume_m3) == RatMul(volume_m3, Rat(125, 100))

\* The dict returned for a parsed geometry and its overall diameter.
GeometryDict(width_mm, aspect_ratio, rim_inch, overall_diameter_mm) ==
  [section_width_mm |-> Some(width_mm),
   aspect_ratio |-> Some(aspect_ratio),
   rim_diameter_inch |-> Some(rim_inch),
   overall_diameter_mm |-> Some(overall_diameter_mm),
   cbm_per_tire |-> Some(PackedVolume(CylinderVolumeM3(overall_diameter_mm, width_mm)))]

\* The estimate for a parsed geometry.
GeometryEstimate(width_mm, aspect_ratio, rim_inch) ==
  GeometryDict(width_mm, aspect_ratio, rim_inch,
               OverallDiameterMm(width_mm, aspect_ratio, rim_inch))

\* The estimate for the result of parse_tire_size.
EstimateParsed(parsed) ==
  IF parsed[1] = None THEN UnparsedGeometry
  ELSE GeometryEstimate(Val(parsed[1]), Val(parsed[2]), Val(parsed[3]))

\* estimate_geometry_and_cbm(size_string): the dict of geometry and volume.
estimate_geometry_and_cbm(size_string) == EstimateParsed(parse_tire_size(size_string))

\* The default usable volumes of estimate_units_per_container, in m3.
DEFAULT_USABLE_CBM_20DC == 28
DEFAULT_USABLE_CBM_40HC == 68

\* not cbm_per_tire or cbm_per_tire <= 0
NoVolume(cbm_per_tire) ==
  cbm_per_tire = None \/ RatIsZero(Val(cbm_per_tire)) \/ ~RatIsPos(Val(cbm_per_tire))

\* max(1, int(usable_cbm // cbm_per_tire)): never less than one unit.
UnitsAtLeastOne(usable_cbm_x, cbm_per_tire) ==
  IF RatLt(usable_cbm_x, cbm_per_tire) THEN 1 ELSE IntOfFloat(FloorDiv(usable_cbm_x, cbm_per_tire))

\* int(usable_cbm // cbm_per_tire)
UnitsFloor(usable_cbm_x, cbm_per_tire) == IntOfFloat(FloorDiv(usable_cbm_x, cbm_per_tire))

\* The function returning 0, 0 instead of None, None without a positive
\* volume.
EstimateUnitsZeroed(cbm_per_tire, usable_cbm_20dc, usable_cbm_40hc) ==
  IF NoVolume(cbm_per_tire) THEN <<Some(0), Some(0)>>
  ELSE <<Some(UnitsFloor(usable_cbm_20dc, Val(cbm_per_tire))),
         Some(UnitsFloor(usable_cbm_40hc, Val(cbm_per_tire)))>>

\* estimate_units_per_container(cbm_per_tire, usable_cbm_20dc,
\* usable_cbm_40hc): (units_20, units_40), both None without a positive
\* volume.
estimate_units_per_container(cbm_per_tire, usable_cbm_20dc, usable_cbm_40hc) ==
  IF NoVolume(cbm_per_tire) THEN <<None, None>>
  ELSE <<Some(UnitsFloor(usable_cbm_20dc, Val(cbm_per_tire))),
         Some(UnitsFloor(usable_cbm_40hc, Val(cbm_per_tire)))>>

(***************************************************************************)
(* app/main.py                                                             *)
(***************************************************************************)
\* float() of the digit string "dd" or "d.d" matched by (\d{1,2}(\.\d)?).
FloatOfGroup(g) ==
  IF \E i \in 1..Len(g) : g[i] = "."
  THEN Rat(IntOf(SelectSeq(g, IsDigit)), 10)
  ELSE RatOfInt(IntOf(g))

\* rim_mm = rim_inch * 25.4; sidewall = width_mm * aspect;
\* diameter_mm = rim_mm + 2 * sidewall, with aspect a fraction of 1.
DiameterMm(width_mm, aspect, rim_inch) ==
  RatAdd(RatMul(rim_inch, Rat(254, 10)), RatMul(Rat(2, 1), RatMul(width_mm, aspect)))

\* radius_mm = diameter_mm / 2.0; volume_mm3 = pi * radius_mm ** 2 * width_mm;
\* volume_m3 = volume_mm3 / 1e9; round(volume_m3, 3)
RoundedVolumeM3(diameter_mm, width_mm) ==
  Round3(RatDiv(Cylinder(RatDiv(diameter_mm, Rat(2, 1)), width_mm), Rat(1000000000, 1)))

\* The rounded volume for a width, an aspect fraction and a rim.
TireCbm(width_mm, aspect, rim_inch) ==
  RoundedVolumeM3(DiameterMm(width_mm, aspect, rim_inch), width_mm)

\* The volume for the groups of a metric match.
MetricCbm(m) ==
  TireCbm(RatOfInt(IntOf(m[1])), RatDiv(RatOfInt(IntOf(m[2])), Rat(100, 1)), RatOfInt(IntOf(m[3])))

\* The volume for the groups of an imperial match, with the aspect 0.85
\* assumed for bias tires.
ImperialCbm(m) ==
  TireCbm(RatMul(FloatOfGroup(m[1]), Rat(254, 10)), Rat(85, 100), RatOfInt(IntOf(m[2])))

\* The result for the matches of the two patterns: the imperial pattern is
\* tried when the metric one fails.
CbmMatches(metric, imperial) ==
  IF metric # None THEN Some(MetricCbm(Val(metric)))
  ELSE IF imperial # None THEN Some(ImperialCbm(Val(imperial)))
  ELSE None

\* The two patterns applied to s = size_string.replace(" ", "").upper().
CbmNormalized(s) == CbmMatches(ReMetricMain(s), ReImperialMain(s))

\* calculate_tire_cbm(size_string): the volume in m3 rounded to 3 decimals,
\* None when the label is not recognised.
calculate_tire_cbm(size_string) ==
  IF size_string = <<>> THEN None
  ELSE CbmNormalized(StrUpper(RemoveSpaces(size_string)))

\* The usable volumes analysis divides by, in m3.
CBM_20 == 28
CBM_40 == 68

\* int(CBM / cbm) if cbm > 0 else 0
UnitsTrunc(CBM, cbm) == IF RatIsPos(cbm) THEN IntOfFloat(TrueDiv(CBM, cbm)) ELSE 0

\* cbm = p.tire_cbm; if not cbm or cbm <= 0: cbm = calculate_tire_cbm(...) or 0.0
AnalysisCbm(p) ==
  IF NoVolume(p.tire_cbm) THEN OrZero(calculate_tire_cbm(p.size_string)) ELSE Val(p.tire_cbm)

\* The container part of the row for the volume cbm.
AnalysisUnits(cbm) ==
  [cbm_per_tire |-> cbm,
   units_20 |-> UnitsTrunc(RatOfInt(CBM_20), cbm),
   units_40 |-> UnitsTrunc(RatOfInt(CBM_40), cbm)]

\* analysis, the container part of one row: the volume used for product p
\* and the units per container.
AnalysisRow(p) == AnalysisUnits(AnalysisCbm(p))

\* The module-level container volumes, in m3.
CONTAINER_20FT_CBM == 33
CONTAINER_40FT_CBM == 67

(***************************************************************************)
(* app/main.py: the product table and its handlers.  A Product is its id   *)
(* (0 until the commit gives it one), brand, size_string and tire_cbm.     *)
(***************************************************************************)
\* Product(brand=..., size_string=..., tire_cbm=...)
NewProduct(brand, size_string, tire_cbm) ==
  [id |-> 0, brand |-> brand, size_string |-> size_string, tire_cbm |-> tire_cbm]

\* The id given to the next row of a table: one more than the largest id
\* in it (an INTEGER PRIMARY KEY of SQLite), 1 in an empty table.
NextId(table) ==
  IF table = <<>> THEN 1
  ELSE 1 + CHOOSE m \in {table[k].id : k \in 1..Len(table)} :
             \A k \in 1..Len(table) : table[k].id <= m

\* db.commit() of the rows added to the session: each gets the next id.
Committed(db, pending) ==
  db \o [k \in 1..Len(pending) |-> [pending[k] EXCEPT !.id = NextId(db) + k - 1]]

\* db.query(Product).filter(Product.id == product_id).first()
FindProduct(db, product_id) ==
  IF \E k \in 1..Len(db) : db[k].id = product_id
  THEN Some(db[CHOOSE k \in 1..Len(db) : db[k].id = product_id])
  ELSE None

\* The automatic volume used whatever the supplied one is.
AlwaysAutoCbm(tire_cbm, auto_cbm) == IF auto_cbm # None THEN auto_cbm ELSE tire_cbm

\* if (tire_cbm is None or tire_cbm == 0.0) and auto_cbm is not None:
\*     tire_cbm = auto_cbm
FormCbm(tire_cbm, auto_cbm) ==
  IF (tire_cbm = None \/ RatIsZero(Val(tire_cbm))) /\ auto_cbm # None THEN auto_cbm ELSE tire_cbm

\* create_product: the Product built from the form.
CreatedProduct(brand, size_string, tire_cbm) ==
  NewProduct(brand, size_string, FormCbm(tire_cbm, calculate_tire_cbm(size_string)))

\* update_product: the fields assigned to the product found.
UpdatedProduct(product, brand, size_string, tire_cbm) ==
  [product EXCEPT !.brand = brand,
                  !.size_string = size_string,
                  !.tire_cbm = FormCbm(tire_cbm, calculate_tire_cbm(size_string))]

\* row.get(key) or "": a missing cell reads as the empty string.
CellText(cell) == IF cell = None THEN <<>> ELSE Val(cell)

\* A plain decimal: digits with at most one point.
IsDecimal(s) ==
  /\ \E i \in 1..Len(s) : IsDigit(s[i])
  /\ \A i \in 1..Len(s) : IsDigit(s[i]) \/ s[i] = "."
  /\ \A i, j \in 1..Len(s) : (s[i] = "." /\ s[j] = ".") => i = j

\* The number of digits after the point.
FractionDigits(s) ==
  IF \E i \in 1..Len(s) : s[i] = "."
  THEN Len(s) - (CHOOSE i \in 1..Len(s) : s[i] = ".")
  ELSE 0

\* float(s) of a cell holding a plain decimal or a word: the double, or
\* None for the ValueError.
FloatOfText(s) ==
  IF IsDecimal(s)
  THEN Some(FloatOfDecimal(IntOf(SelectSeq(s, IsDigit)), 10 ^ FractionDigits(s)))
  ELSE None
FloatOfCell(s) == FloatOfText(Strip(s))

\* float(raw_cbm) if raw_cbm not in (None, "") else 0.0, and 0.0 on a
\* ValueError.
CsvCbm(raw_cbm) ==
  IF raw_cbm = None \/ Val(raw_cbm) = <<>> \/ FloatOfCell(CellText(raw_cbm)) = None
  THEN Rat(0, 1)
  ELSE Val(FloatOfCell(CellText(raw_cbm)))

\* if tire_cbm_val == 0.0: auto_cbm = calculate_tire_cbm(size_string);
\*     if auto_cbm is not None: tire_cbm_val = auto_cbm
ImportedCbm(tire_cbm_val, auto_cbm) ==
  IF RatIsZero(tire_cbm_val) /\ auto_cbm # None THEN Val(auto_cbm) ELSE tire_cbm_val

\* float(row.get(key) or 0.0) of a numeric column: None for the ValueError.
CsvNumber(cell) ==
  IF cell = None \/ Val(cell) = <<>> THEN Some(Rat(0, 1)) ELSE FloatOfCell(Val(cell))

\* brand = (row.get("brand") or "").strip(), and size_string alike.
RowBrand(r) == Strip(CellText(r.brand))
RowSize(r) == Strip(CellText(r.size_string))

\* if not brand or not size_string: skipped += 1; continue
RowSkipped(r) == RowBrand(r) = <<>> \/ RowSize(r) = <<>>

\* A row whose label is not recognised raises like a bad number.
RowProductParsedOnly(r) ==
  IF CsvNumber(r.exw_price) = None \/ calculate_tire_cbm(RowSize(r)) = None THEN None
  ELSE Some(NewProduct(RowBrand(r), RowSize(r),
                       Some(ImportedCbm(CsvCbm(r.tire_cbm), calculate_tire_cbm(RowSize(r))))))

\* The Product(...) of a row: its arguments convert the numeric columns,
\* so the result is None when float() raises ValueError.
RowProduct(r) ==
  IF CsvNumber(r.exw_price) = None THEN None
  ELSE Some(NewProduct(RowBrand(r), RowSize(r),
                       Some(ImportedCbm(CsvCbm(r.tire_cbm), calculate_tire_cbm(RowSize(r))))))

(***************************************************************************)
(* seed_lassa_products.py                                                  *)
(***************************************************************************)
\* The geometry and logistics keyword arguments of Product(...).
SeedFields(size_string, geo, units) ==
  [size_string |-> size_string,
   tire_cbm |-> OrZero(geo.cbm_per_tire),
   section_width_mm |-> geo.section_width_mm,
   aspect_ratio |-> geo.aspect_ratio,
   rim_diameter_inch |-> geo.rim_diameter_inch,
   overall_diameter_mm |-> geo.overall_diameter_mm,
   cbm_per_tire_estimated |-> geo.cbm_per_tire,
   units_per_20dc_estimated |-> units[1],
   units_per_40hc_estimated |-> units[2]]

\* units_20, units_40 = estimate_units_per_container(geo["cbm_per_tire"])
SeedUnits(size_string, geo) ==
  SeedFields(size_string, geo,
             estimate_units_per_container(geo.cbm_per_tire,
                                          RatOfInt(DEFAULT_USABLE_CBM_20DC),
                                          RatOfInt(DEFAULT_USABLE_CBM_40HC)))

\* The arguments of Product(...) for one line of the list: geometry, volume
\* and units.
SeedProduct(size_string) == SeedUnits(size_string, estimate_geometry_and_cbm(size_string))

(***************************************************************************)
(* Inputs.  The labels are catalogue sizes of both grammars, the extreme   *)
(* digit groups, sizes of the seed list that utils.py does not recognise,  *)
(* free text, and every label one edit away from one of them (a character  *)
(* inserted anywhere or deleted).                                          *)
(***************************************************************************)
BaseLabels ==
  {<<"4", "2", "0", "/", "8", "5", "R", "2", "8">>,              \* "420/85R28"
   <<"0", "0", "0", "/", "0", "0", "R", "0", "0">>,              \* "000/00R00"
   <<"9", "9", "9", "/", "9", "9", "R", "9", "9">>,              \* "999/99R99"
   <<"1", "0", "0", "/", "1", "0", "R", "0", "1">>,              \* "100/10R01"
   <<"4", "8", "0", "/", "7", "0", "R", "2", "8">>,              \* "480/70R28"
   <<"2", "5", "0", "/", "8", "5", "R", "2", "4">>,              \* "250/85R24"
   <<"4", "2", "0", "/", "8", "5", " ", "R", " ", "2", "8">>,    \* "420/85 R 28"
   <<"4", "2", "0", "/", "8", "5", "r", "2", "8">>,              \* "420/85r28"
   <<"1", "8", ".", "4", "-", "3", "0">>,                        \* "18.4-30"
   <<"0", "0", ".", "0", "-", "0", "0">>,                        \* "00.0-00"
   <<"1", "1", ".", "2", "-", "2", "4">>,                        \* "11.2-24"
   <<"9", "9", ".", "9", "-", "9", "9">>,                        \* "99.9-99"
   <<"9", ".", "5", "-", "2", "4">>,                             \* "9.5-24"
   <<"1", "2", "-", "2", "8">>,                                  \* "12-28"
   <<"1", "2", ".", "4", "/", "1", "1", "-", "2", "4">>,         \* "12.4/11-24"
   <<"5", ".", "5", "0", "-", "1", "6">>,                        \* "5.50-16"
   <<"n", "o", "t", "-", "a", "-", "s", "i", "z", "e">>,         \* "not-a-size"
   <<"g", "a", "r", "b", "a", "g", "e">>,                        \* "garbage"
   <<>>}

EditChars == {"0", "9", " ", "\t", "R", "r", "/", ".", "-", "X"}

InsertAt(s, i, c) == SubSeq(s, 1, i) \o <<c>> \o SubSeq(s, i + 1, Len(s))
DeleteAt(s, i) == SubSeq(s, 1, i - 1) \o SubSeq(s, i + 1, Len(s))

Labels ==
  BaseLabels
  \cup {InsertAt(s, i, c) : <<s, i, c>> \in {x \in BaseLabels \X (0..13) \X EditChars : x[2] <= Len(x[1])}}
  \cup {DeleteAt(s, i) : <<s, i>> \in {x \in BaseLabels \X (1..13) : x[2] <= Len(x[1])}}

\* Volumes are given in thousandths of a cubic metre: every value up to
\* MaxMilliCbm and a few larger ones, up to more than a container holds.
MaxMilliCbm == 5
MilliCbms == (1..MaxMilliCbm) \cup {100, 1250, 30000, 70000}

CbmInputs ==
  {None, Some(Rat(0, 1)), Some(RatNeg(FloatOfDecimal(500, 1000)))}
  \cup {Some(FloatOfDecimal(k, 1000)) : k \in MilliCbms}

\* The labels a volume is combined with: recognised by both parsers, by
\* calculate_tire_cbm only, by neither.
VolumeLabels ==
  {<<"4", "2", "0", "/", "8", "5", "R", "2", "8">>,
   <<"9", ".", "5", "-", "2", "4">>,
   <<"g", "a", "r", "b", "a", "g", "e">>}

\* Usable container volumes (20DC, 40HC): the defaults and overrides.
UsableInputs ==
  {<<RatOfInt(DEFAULT_USABLE_CBM_20DC), RatOfInt(DEFAULT_USABLE_CBM_40HC)>>,
   <<Rat(33, 1), Rat(67, 1)>>,
   <<FloatOfDecimal(5, 10), Rat(1, 1)>>}

\* The forms of create_product and update_product: a brand, a label that
\* calculate_tire_cbm recognises or not, a volume given, zero or negative.
FormBrand == <<"L", "a", "s", "s", "a">>
FormLabels == {<<"4", "2", "0", "/", "8", "5", "R", "2", "8">>, <<"g", "a", "r", "b", "a", "g", "e">>}
FormCbms == {Some(Rat(0, 1)), Some(FloatOfDecimal(25, 100)), Some(RatNeg(FloatOfDecimal(5, 10)))}

\* The rows of an uploaded CSV file: cells are None when the column is
\* missing.  exw_price stands for the numeric columns, which are all
\* converted the same way.
CsvRow(brand, size, cbm, exw) ==
  [brand |-> brand, size_string |-> size, tire_cbm |-> cbm, exw_price |-> exw]
CsvRows ==
  {CsvRow(Some(<<"L", "a", "s", "s", "a">>), Some(<<" ", "4", "2", "0", "/", "8", "5", "R", "2", "8", " ">>), None, None),
   CsvRow(Some(<<"L", "a", "s", "s", "a">>), Some(<<"g", "a", "r", "b", "a", "g", "e">>), Some(<<>>), Some(<<"1", "0", "0">>)),
   CsvRow(Some(<<"L", "a", "s", "s", "a">>), Some(<<"g", "a", "r", "b", "a", "g", "e">>), Some(<<"0", ".", "2", "5">>), Some(<<"1", "0", "0">>)),
   CsvRow(Some(<<"L", "a", "s", "s", "a">>), Some(<<"4", "2", "0", "/", "8", "5", "R", "2", "8">>), Some(<<"0", ".", "2", "5">>), None),
   CsvRow(Some(<<"L", "a", "s", "s", "a">>), Some(<<"4", "2", "0", "/", "8", "5", "R", "2", "8">>), Some(<<"a", "b", "c">>), Some(<<>>)),
   CsvRow(Some(<<"L", "a", "s", "s", "a">>), Some(<<"4", "2", "0", "/", "8", "5", "R", "2", "8">>), Some(<<"0">>), Some(<<"a", "b", "c">>)),
   CsvRow(Some(<<"L", "a", "s", "s", "a">>), Some(<<"g", "a", "r", "b", "a", "g", "e">>), Some(<<"0", ".", "2", "5">>), Some(<<"1", "2", ",", "5">>)),
   CsvRow(Some(<<" ">>), Some(<<"4", "2", "0", "/", "8", "5", "R", "2", "8">>), None, None),
   CsvRow(Some(<<"L", "a", "s", "s", "a">>), Some(<<" ">>), Some(<<"0", ".", "2", "5">>), None),
   CsvRow(None, Some(<<"4", "2", "0", "/", "8", "5", "R", "2", "8">>), None, None)}

\* At most MaxProducts products are stored and MaxRows rows are read.
MaxProducts == 2
MaxRows == 3

(***************************************************************************)
(* State: the arguments of the call, the function that returned last and   *)
(* its result.  The functions are synchronous and share no state; a call   *)
(* starts when the previous one has returned.                              *)
(***************************************************************************)
VARIABLES size_string, tire_cbm, usable_cbm, pc, ret

\* The product table, the products added to the session of the running
\* import, the row it read last, and its counters.
VARIABLES db, session, row, row_i, created, skipped

\* The Product whose properties are read.
VARIABLE product

\* The competitor_prices table.
VARIABLE competitor_prices

vars == <<size_string, tire_cbm, usable_cbm, pc, ret, db, session, row, row_i, created, skipped, product,
         competitor_prices>>
inputs == <<size_string, tire_cbm, usable_cbm>>
import == <<session, row, row_i, created, skipped>>

\* No product and no competitor price stored, and no import running.
EmptyCatalog ==
  /\ db = <<>>
  /\ competitor_prices = <<>>
  /\ session = <<>>
  /\ row = None
  /\ row_i = 0
  /\ created = 0
  /\ skipped = 0

InitLabels ==
  /\ size_string \in Labels
  /\ tire_cbm = None
  /\ usable_cbm = <<RatOfInt(DEFAULT_USABLE_CBM_20DC), RatOfInt(DEFAULT_USABLE_CBM_40HC)>>

InitVolumes ==
  /\ size_string \in VolumeLabels
  /\ tire_cbm \in CbmInputs
  /\ usable_cbm \in UsableInputs

Init ==
  /\ InitLabels \/ InitVolumes
  /\ pc = "idle"
  /\ ret = None
  /\ EmptyCatalog
  /\ product = None

ParseTireSize ==
  /\ pc = "idle"
  /\ pc' = "parse_tire_size"
  /\ ret' = parse_tire_size(size_string)
  /\ UNCHANGED <<inputs, db, import, product, competitor_prices>>

EstimateGeometryAndCbm ==
  /\ pc = "idle"
  /\ pc' = "estimate_geometry_and_cbm"
  /\ ret' = estimate_geometry_and_cbm(size_string)
  /\ UNCHANGED <<inputs, db, import, product, competitor_prices>>

EstimateUnitsPerContainer ==
  /\ pc = "idle"
  /\ pc' = "estimate_units_per_container"
  /\ ret' = estimate_units_per_container(tire_cbm, usable_cbm[1], usable_cbm[2])
  /\ UNCHANGED <<inputs, db, import, product, competitor_prices>>

CalculateTireCbm ==
  /\ pc = "idle"
  /\ pc' = "calculate_tire_cbm"
  /\ ret' = calculate_tire_cbm(size_string)
  /\ UNCHANGED <<inputs, db, import, product, competitor_prices>>

\* seed_lassa_products computes the arguments of Product(...) for a line
\* whose size is size_string.
SeedLassaProduct ==
  /\ pc = "idle"
  /\ pc' = "seed_lassa_products"
  /\ ret' = SeedProduct(size_string)
  /\ UNCHANGED <<inputs, db, import, product, competitor_prices>>

\* analysis builds the row of the product (size_string, tire_cbm).
Analysis ==
  /\ pc = "idle"
  /\ pc' = "analysis"
  /\ ret' = AnalysisRow([size_string |-> size_string, tire_cbm |-> tire_cbm])
  /\ UNCHANGED <<inputs, db, import, product, competitor_prices>>

\* The caller takes the result.
Return ==
  /\ pc # "idle"
  /\ pc' = "idle"
  /\ ret' = None
  /\ UNCHANGED <<inputs, db, import, product, competitor_prices>>

Next ==
  \/ ParseTireSize
  \/ EstimateGeometryAndCbm
  \/ EstimateUnitsPerContainer
  \/ CalculateTireCbm
  \/ SeedLassaProduct
  \/ Analysis
  \/ Return

Spec == Init /\ [][Next]_vars

(***************************************************************************)
(* The product handlers: forms and CSV import, on one product table.       *)
(***************************************************************************)
InitCatalog ==
  /\ size_string = <<>>
  /\ tire_cbm = None
  /\ usable_cbm = <<RatOfInt(DEFAULT_USABLE_CBM_20DC), RatOfInt(DEFAULT_USABLE_CBM_40HC)>>
  /\ pc = "idle"
  /\ ret = None
  /\ EmptyCatalog
  /\ product = None

\* POST /products: the product is added, committed and refreshed.
CreateProduct ==
  /\ pc = "idle"
  /\ NextId(db) <= MaxProducts
  /\ \E s \in FormLabels, c \in FormCbms :
       /\ size_string' = s
       /\ tire_cbm' = c
       /\ db' = Committed(db, <<CreatedProduct(FormBrand, s, c)>>)
  /\ ret' = Some(db'[Len(db')])
  /\ pc' = "create_product"
  /\ UNCHANGED <<usable_cbm, import, product, competitor_prices>>

\* POST /products/{product_id}/edit: nothing changes when no product has
\* the id.
UpdateProduct ==
  /\ pc = "idle"
  /\ \E product_id \in 1..(MaxProducts + 1), s \in FormLabels, c \in FormCbms :
       /\ size_string' = s
       /\ tire_cbm' = c
       /\ IF FindProduct(db, product_id) = None
          THEN /\ db' = db
               /\ ret' = None
          ELSE /\ db' = [db EXCEPT ![product_id] =
                           UpdatedProduct(Val(FindProduct(db, product_id)), FormBrand, s, c)]
               /\ ret' = Some(db'[product_id])
  /\ pc' = "update_product"
  /\ UNCHANGED <<usable_cbm, import, product, competitor_prices>>

\* POST /products/import_csv: the file is opened, the counters start at 0.
ImportStart ==
  /\ pc = "idle"
  /\ Len(db) < MaxProducts
  /\ pc' = "import_rows"
  /\ session' = <<>>
  /\ row' = None
  /\ row_i' = 0
  /\ created' = 0
  /\ skipped' = 0
  /\ ret' = None
  /\ UNCHANGED <<inputs, db, product, competitor_prices>>

\* One iteration of `for row in reader`: the row is skipped, or its
\* Product is added to the session, or float() raises ValueError out of
\* the handler, whose session is closed with nothing committed.
ImportRow ==
  /\ pc = "import_rows"
  /\ row_i < MaxRows
  /\ \E r \in CsvRows :
       /\ row' = Some(r)
       /\ row_i' = row_i + 1
       /\ IF RowSkipped(r)
          THEN /\ skipped' = skipped + 1
               /\ UNCHANGED <<pc, created, session>>
          ELSE IF RowProduct(r) = None
          THEN /\ pc' = "import_products_csv_raised"
               /\ session' = <<>>
               /\ UNCHANGED <<created, skipped>>
          ELSE /\ Len(db) + Len(session) < MaxProducts
               /\ session' = Append(session, Val(RowProduct(r)))
               /\ created' = created + 1
               /\ UNCHANGED <<pc, skipped>>
  /\ UNCHANGED <<inputs, ret, db, product, competitor_prices>>

\* The reader is exhausted: db.commit(), and the counters are reported.
ImportCommit ==
  /\ pc = "import_rows"
  /\ db' = Committed(db, session)
  /\ session' = <<>>
  /\ ret' = Some([created |-> created, skipped |-> skipped])
  /\ pc' = "import_products_csv"
  /\ UNCHANGED <<inputs, row, row_i, created, skipped, product, competitor_prices>>

\* The handler has answered (a redirect, or the error of the exception):
\* its arguments and locals are gone, the table stays.
Respond ==
  /\ pc \in {"create_product", "update_product", "import_products_csv",
             "import_products_csv_raised", "delete_product", "create_competitor",
             "update_competitor", "delete_competitor", "import_competitor_from_search"}
  /\ pc' = "idle"
  /\ ret' = None
  /\ size_string' = <<>>
  /\ tire_cbm' = None
  /\ session' = <<>>
  /\ row' = None
  /\ row_i' = 0
  /\ created' = 0
  /\ skipped' = 0
  /\ UNCHANGED <<usable_cbm, db, product, competitor_prices>>

NextCatalog ==
  \/ CreateProduct
  \/ UpdateProduct
  \/ ImportStart
  \/ ImportRow
  \/ ImportCommit
  \/ Respond

SpecCatalog == InitCatalog /\ [][NextCatalog]_vars

(***************************************************************************)
(* The competitor handlers, with create_product and delete_product, on the *)
(* two tables.  A CompetitorPrice is its id, product_id and source_name.   *)
(* The engine is SQLite and no handler issues PRAGMA foreign_keys = ON:    *)
(* the ForeignKey of product_id is declared and not enforced.  A handler   *)
(* answers with the product_id of its redirect, None for /products.        *)
(***************************************************************************)
MaxCompetitors == 2

\* CompetitorPrice(product_id=..., source_name=...), committed.
NewCompetitor(prices, product_id, source_name) ==
  Append(prices, [id |-> NextId(prices), product_id |-> product_id, source_name |-> source_name])

\* POST /products/{product_id}/delete: db.delete(product) deletes the
\* competitor prices of the product with it (cascade="all, delete-orphan").
DeleteProduct ==
  /\ pc = "idle"
  /\ \E product_id \in 1..(MaxProducts + 1) :
       IF FindProduct(db, product_id) = None
       THEN UNCHANGED <<db, competitor_prices>>
       ELSE /\ db' = SelectSeq(db, LAMBDA p : p.id # product_id)
            /\ competitor_prices' = SelectSeq(competitor_prices, LAMBDA c : c.product_id # product_id)
  /\ pc' = "delete_product"
  /\ ret' = None
  /\ UNCHANGED <<inputs, import, product>>

\* POST /competitors: the row is added with the product_id of the form.
CreateCompetitor ==
  /\ pc = "idle"
  /\ NextId(competitor_prices) <= MaxCompetitors
  /\ \E product_id \in 1..(MaxProducts + 1) :
       /\ competitor_prices' = NewCompetitor(competitor_prices, product_id, "Tyres Int.")
       /\ ret' = Some(product_id)
  /\ pc' = "create_competitor"
  /\ UNCHANGED <<inputs, db, import, product>>

\* POST /competitors/{competitor_id}/edit: the row takes the product_id of
\* the form; nothing changes when no row has the id.
UpdateCompetitor ==
  /\ pc = "idle"
  /\ \E competitor_id \in 1..(MaxCompetitors + 1), product_id \in 1..(MaxProducts + 1) :
       IF \E k \in 1..Len(competitor_prices) : competitor_prices[k].id = competitor_id
       THEN /\ competitor_prices' =
                 [k \in 1..Len(competitor_prices) |->
                    IF competitor_prices[k].id = competitor_id
                    THEN [competitor_prices[k] EXCEPT !.product_id = product_id,
                                                      !.source_name = "Tyres Int."]
                    ELSE competitor_prices[k]]
            /\ ret' = Some(product_id)
       ELSE /\ UNCHANGED competitor_prices
            /\ ret' = None
  /\ pc' = "update_competitor"
  /\ UNCHANGED <<inputs, db, import, product>>

\* POST /competitors/{competitor_id}/delete
DeleteCompetitor ==
  /\ pc = "idle"
  /\ \E competitor_id \in 1..(MaxCompetitors + 1) :
       IF \E k \in 1..Len(competitor_prices) : competitor_prices[k].id = competitor_id
       THEN /\ ret' = Some((CHOOSE c \in {competitor_prices[k] : k \in 1..Len(competitor_prices)} :
                              c.id = competitor_id).product_id)
            /\ competitor_prices' = SelectSeq(competitor_prices, LAMBDA c : c.id # competitor_id)
       ELSE /\ UNCHANGED competitor_prices
            /\ ret' = None
  /\ pc' = "delete_competitor"
  /\ UNCHANGED <<inputs, db, import, product>>

\* POST /competitors/import_from_search: the row is added only when the
\* product exists.
ImportCompetitorFromSearch ==
  /\ pc = "idle"
  /\ \E product_id \in 1..(MaxProducts + 1) :
       IF FindProduct(db, product_id) = None
       THEN /\ UNCHANGED competitor_prices
            /\ ret' = None
       ELSE /\ NextId(competitor_prices) <= MaxCompetitors
            /\ competitor_prices' = NewCompetitor(competitor_prices, product_id, "Google Search")
            /\ ret' = Some(product_id)
  /\ pc' = "import_competitor_from_search"
  /\ UNCHANGED <<inputs, db, import, product>>

NextCompetitors ==
  \/ CreateProduct
  \/ DeleteProduct
  \/ CreateCompetitor
  \/ UpdateCompetitor
  \/ DeleteCompetitor
  \/ ImportCompetitorFromSearch
  \/ Respond

SpecCompetitors == InitCatalog /\ [][NextCompetitors]_vars

(***************************************************************************)
(* models.py: the container loads of a Product, manual override first.     *)
(* A load is None or Some(n).                                              *)
(***************************************************************************)
\* `manual or estimated`: a manual 0 counts as no override.
EffectiveUnitsUnlessFalsy(self) ==
  IF self.units_per_20dc_manual # None /\ self.units_per_20dc_manual # Some(0)
  THEN self.units_per_20dc_manual
  ELSE self.units_per_20dc_estimated

effective_units_per_20dc(self) ==
  IF self.units_per_20dc_manual # None
  THEN self.units_per_20dc_manual
  ELSE self.units_per_20dc_estimated

effective_units_per_40hc(self) ==
  IF self.units_per_40hc_manual # None
  THEN self.units_per_40hc_manual
  ELSE self.units_per_40hc_estimated

\* The loads a Product column can hold.
UnitsColumn == {None, Some(0), Some(5), Some(12)}

LoadedProducts ==
  [units_per_20dc_manual : UnitsColumn, units_per_20dc_estimated : UnitsColumn,
   units_per_40hc_manual : UnitsColumn, units_per_40hc_estimated : UnitsColumn]

InitModels ==
  /\ size_string = <<>>
  /\ tire_cbm = None
  /\ usable_cbm = <<RatOfInt(DEFAULT_USABLE_CBM_20DC), RatOfInt(DEFAULT_USABLE_CBM_40HC)>>
  /\ pc = "idle"
  /\ ret = None
  /\ EmptyCatalog
  /\ product \in LoadedProducts

EffectiveUnitsPer20dc ==
  /\ pc = "idle"
  /\ pc' = "effective_units_per_20dc"
  /\ ret' = effective_units_per_20dc(product)
  /\ UNCHANGED <<inputs, db, import, product, competitor_prices>>

EffectiveUnitsPer40hc ==
  /\ pc = "idle"
  /\ pc' = "effective_units_per_40hc"
  /\ ret' = effective_units_per_40hc(product)
  /\ UNCHANGED <<inputs, db, import, product, competitor_prices>>

NextModels ==
  \/ EffectiveUnitsPer20dc
  \/ EffectiveUnitsPer40hc
  \/ Return

SpecModels == InitModels /\ [][NextModels]_vars

(***************************************************************************)
(* app/main.py, analysis: the competitor offers of a product.  An offer    *)
(* is its selling_price (None or Some(float)) and its currency (None or    *)
(* Some(text)); the product adds currency, exw_price and packing_cost.     *)
(***************************************************************************)
\* An offer counts as soon as it has a price.
HasPrice(o) == o.selling_price # None

\* (o.selling_price or 0) > 0
IsValidOffer(o) == RatIsPos(OrZero(o.selling_price))

\* valid_offers = [o for o in offers if (o.selling_price or 0) > 0]
valid_offers(offers) == SelectSeq(offers, IsValidOffer)

\* min(valid_offers, key=lambda o: o.selling_price) over offers[i..], best
\* being the minimum so far: the first of the offers of minimal price.
RECURSIVE MinOffer(_, _, _)
MinOffer(offers, i, best) ==
  IF i > Len(offers) THEN best
  ELSE MinOffer(offers, i + 1,
                IF RatLt(Val(offers[i].selling_price), Val(best.selling_price))
                THEN offers[i] ELSE best)

\* best_offer, None without a valid offer.
best_offer(valid) == IF valid = <<>> THEN None ELSE Some(MinOffer(valid, 2, valid[1]))

\* x - y of two non-negative floats.
FloatSub(x, y) ==
  IF RatLe(y, x)
  THEN ToDouble([neg |-> FALSE,
                 num |-> BNSub(BNMul(x.num, y.den), BNMul(y.num, x.den)),
                 den |-> BNMul(x.den, y.den)])
  ELSE ToDouble([neg |-> TRUE,
                 num |-> BNSub(BNMul(y.num, x.den), BNMul(x.num, y.den)),
                 den |-> BNMul(x.den, y.den)])

\* (profit / best_price) * 100.0, best_price positive.
MarginPercent(profit, best_price) ==
  ToDouble([neg |-> profit.neg,
            num |-> BNMulSmall(TrueDiv(profit, best_price).num, 100),
            den |-> TrueDiv(profit, best_price).den])

\* factory_cost = (p.exw_price or 0.0) + (p.packing_cost or 0.0)
factory_cost(p) == ToDouble(RatAdd(OrZero(p.exw_price), OrZero(p.packing_cost)))

\* p.currency or "USD"
ProductCurrency(p) == IF p.currency = None \/ p.currency = Some("") THEN Some("USD") ELSE p.currency

\* not best_currency or best_currency == (p.currency or "USD")
SameCurrency(best_currency, p) ==
  best_currency = None \/ best_currency = Some("") \/ best_currency = ProductCurrency(p)

\* profit_per_tire and margin_percent for the best price, None when there is
\* no best price or the currencies differ.
Profit(best, cost, p) ==
  IF best # None /\ RatIsPos(Val(Val(best).selling_price)) /\ SameCurrency(Val(best).currency, p)
  THEN Some(FloatSub(Val(Val(best).selling_price), cost))
  ELSE None

Margin(best, profit) ==
  IF profit # None /\ ~RatIsZero(Val(Val(best).selling_price))
  THEN Some(MarginPercent(Val(profit), Val(Val(best).selling_price)))
  ELSE None

\* The offer part of the row, from the valid offers, the best of them, the
\* factory cost and the profit.
OfferRow(valid, best, cost, profit) ==
  [offers_count |-> Len(valid),
   best_price |-> IF best = None THEN None ELSE Val(best).selling_price,
   best_currency |-> IF best = None THEN None ELSE Val(best).currency,
   factory_cost |-> cost,
   profit_per_tire |-> profit,
   margin_percent |-> Margin(best, profit)]

BestOfferRow(p, valid, best) ==
  OfferRow(valid, best, factory_cost(p), Profit(best, factory_cost(p), p))

\* analysis, the offer part of the row of product p.
AnalysisOffers(p) ==
  BestOfferRow(p, valid_offers(p.competitor_prices), best_offer(valid_offers(p.competitor_prices)))

\* CompetitorPrice(selling_price=..., currency=...)
Offer(selling_price, currency) == [selling_price |-> selling_price, currency |-> currency]

\* The offers a product can have: without a price, free, and priced 80.0,
\* 100.0 or 120.5, with a currency, an empty one or none.
Offers ==
  { Offer(None, Some("USD")),
    Offer(Some(Rat(0, 1)), Some("USD")),
    Offer(Some(Rat(80, 1)), Some("USD")),
    Offer(Some(Rat(80, 1)), Some("EUR")),
    Offer(Some(Rat(100, 1)), Some("")),
    Offer(Some(FloatOfDecimal(1205, 10)), None) }

MaxOffers == 2

OfferLists == UNION { [1..n -> Offers] : n \in 0..MaxOffers }

\* The products: no currency, USD or EUR; no EXW price or 90.5; no packing
\* cost or 2.5; up to MaxOffers offers.
PricedProducts ==
  [currency : {None, Some("USD"), Some("EUR")},
   exw_price : {None, Some(FloatOfDecimal(905, 10))},
   packing_cost : {None, Some(FloatOfDecimal(25, 10))},
   competitor_prices : OfferLists]

InitOffers ==
  /\ size_string = <<>>
  /\ tire_cbm = None
  /\ usable_cbm = <<RatOfInt(DEFAULT_USABLE_CBM_20DC), RatOfInt(DEFAULT_USABLE_CBM_40HC)>>
  /\ pc = "idle"
  /\ ret = None
  /\ EmptyCatalog
  /\ product \in PricedProducts

\* analysis builds the offer part of the row of the product.
AnalysisBestOffer ==
  /\ pc = "idle"
  /\ pc' = "analysis"
  /\ ret' = AnalysisOffers(product)
  /\ UNCHANGED <<inputs, db, import, product, competitor_prices>>

NextOffers ==
  \/ AnalysisBestOffer
  \/ Return

SpecOffers == InitOffers /\ [][NextOffers]_vars

(***************************************************************************)
(* The size grammars as the specification states them.                     *)
(***************************************************************************)
IsNotSpace(c) == ~IsSpace(c)
Normalized(s) == StrUpper(SelectSeq(s, IsNotSpace))

\* ddd/ddRdd once whitespace is removed and letters are upper-cased.
SupportedMetric(s) ==
  LET n == Normalized(s)
  IN /\ Len(n) = 9
     /\ \A j \in {1, 2, 3, 5, 6, 8, 9} : IsDigit(n[j])
     /\ n[4] = "/"
     /\ n[7] = "R"

\* dd.d-dd once whitespace is removed.
SupportedImperial(s) ==
  LET n == Normalized(s)
  IN /\ Len(n) = 7
     /\ \A j \in {1, 2, 4, 6, 7} : IsDigit(n[j])
     /\ n[3] = "."
     /\ n[5] = "-"

\* WWW/AA R RR: three digits, "/", two digits, an "R" with a whitespace
\* characters before it and b after it, two digits.
MetricLabelWith(s, a, b) ==
  /\ Len(s) = 9 + a + b
  /\ \A j \in {1, 2, 3, 5, 6, 8 + a + b, 9 + a + b} : IsDigit(s[j])
  /\ s[4] = "/"
  /\ \A j \in 7..(6 + a) : IsSpace(s[j])
  /\ s[7 + a] = "R"
  /\ \A j \in (8 + a)..(7 + a + b) : IsSpace(s[j])
MetricLabel(s) == \E a \in 0..Len(s) : \E b \in 0..Len(s) : MetricLabelWith(s, a, b)

\* DD.d-RR
ImperialLabel(s) ==
  /\ Len(s) = 7
  /\ \A j \in {1, 2, 4, 6, 7} : IsDigit(s[j])
  /\ s[3] = "."
  /\ s[5] = "-"

\* The number a run of digits writes.
Written(s, i, n) == IF n = 3 THEN 100 * DigitVal(s[i]) + 10 * DigitVal(s[i + 1]) + DigitVal(s[i + 2])
                    ELSE 10 * DigitVal(s[i]) + DigitVal(s[i + 1])

(***************************************************************************)
(* C1: a string of neither supported grammar (ddd/ddRdd with the R,        *)
(* dd.d-dd) is reported unparsed: parse_tire_size returns (None, None,     *)
(* None) and calculate_tire_cbm returns None.                              *)
(***************************************************************************)
C1_UnsupportedIsUnparsed ==
  ~(SupportedMetric(size_string) \/ SupportedImperial(size_string)) =>
    /\ pc = "parse_tire_size" => ret = <<None, None, None>>
    /\ pc = "calculate_tire_cbm" => ret = None

(***************************************************************************)
(* C2: for a metric label WWW/AA R RR, with optional whitespace around the *)
(* R, parse_tire_size returns exactly the three numbers written in the     *)
(* label.                                                                  *)
(***************************************************************************)
C2_MetricAsWritten ==
  (pc = "parse_tire_size" /\ MetricLabel(size_string)) =>
    /\ \A j \in 1..3 : ret[j] # None
    /\ RatEq(Val(ret[1]), RatOfInt(Written(size_string, 1, 3)))
    /\ RatEq(Val(ret[2]), RatOfInt(Written(size_string, 5, 2)))
    /\ RatEq(Val(ret[3]), RatOfInt(Written(size_string, Len(size_string) - 1, 2)))

\* parse_tire_size has returned the geometry of a metric label with
\* whitespace on both sides of the R.
C2_Witness ==
  /\ pc = "parse_tire_size"
  /\ MetricLabelWith(size_string, 1, 1)
  /\ ret[1] # None
  /\ RatIsPos(Val(ret[1]))

(***************************************************************************)
(* C3: for an imperial label DD.d-RR, parse_tire_size returns the width    *)
(* DD.d * 25.4 mm, the rim RR and the aspect ratio 80, whatever the label. *)
(***************************************************************************)
C3_ImperialGeometry ==
  (pc = "parse_tire_size" /\ ImperialLabel(size_string)) =>
    /\ \A j \in 1..3 : ret[j] # None
    /\ RatEq(Val(ret[1]),
             Rat((10 * Written(size_string, 1, 2) + DigitVal(size_string[4])) * 254, 100))
    /\ RatEq(Val(ret[2]), Rat(80, 1))
    /\ RatEq(Val(ret[3]), RatOfInt(Written(size_string, 6, 2)))

\* parse_tire_size has returned the geometry of an imperial label of
\* non-zero width.
C3_Witness ==
  /\ pc = "parse_tire_size"
  /\ ImperialLabel(size_string)
  /\ ret[1] # None
  /\ RatIsPos(Val(ret[1]))

(***************************************************************************)
(* C4: parsing is all-or-nothing: the three values of parse_tire_size, and *)
(* the five fields of estimate_geometry_and_cbm, are all None or all       *)
(* present.                                                                *)
(***************************************************************************)
GeometryFields ==
  {"section_width_mm", "aspect_ratio", "rim_diameter_inch", "overall_diameter_mm", "cbm_per_tire"}

C4_AllOrNothing ==
  /\ pc = "parse_tire_size" =>
       \/ \A j \in 1..3 : ret[j] = None
       \/ \A j \in 1..3 : ret[j] # None
  /\ pc = "estimate_geometry_and_cbm" =>
       \/ \A f \in GeometryFields : ret[f] = None
       \/ \A f \in GeometryFields : ret[f] # None

\* estimate_geometry_and_cbm has returned for a non-empty label that is not
\* recognised.
C4_Witness ==
  /\ pc = "estimate_geometry_and_cbm"
  /\ size_string # <<>>
  /\ ret.section_width_mm = None

(***************************************************************************)
(* C5: whenever a label parses, the volume is strictly positive: the       *)
(* cbm_per_tire of estimate_geometry_and_cbm and the rounded volume of     *)
(* calculate_tire_cbm are > 0 for every accepted label.                    *)
(***************************************************************************)
C5_ParsedVolumePositive ==
  /\ (pc = "estimate_geometry_and_cbm" /\ ret.section_width_mm # None) =>
       (ret.cbm_per_tire # None /\ RatIsPos(Val(ret.cbm_per_tire)))
  /\ (pc = "calculate_tire_cbm" /\ ret # None) => RatIsPos(Val(ret))

(***************************************************************************)
(* C6, as stated: with a positive volume and positive usable volumes, the  *)
(* units of both containers are at least 1, in                             *)
(* estimate_units_per_container and in analysis.                           *)
(***************************************************************************)
C6_UnitsStrictlyPositive ==
  /\ (pc = "estimate_units_per_container" /\ tire_cbm # None /\ RatIsPos(Val(tire_cbm))) =>
       \A j \in 1..2 : ret[j] # None /\ Val(ret[j]) >= 1
  /\ (pc = "analysis" /\ RatIsPos(ret.cbm_per_tire)) =>
       (ret.units_20 >= 1 /\ ret.units_40 >= 1)

(***************************************************************************)
(* C6, amended: with a positive volume and positive usable volumes, the    *)
(* units of each container are a non-negative integer, at least 1 exactly  *)
(* when the volume of one tire does not exceed the usable volume of that   *)
(* container, and 0 for a tire larger than the container.                  *)
(***************************************************************************)
C6_UnitsPositiveIffFits ==
  /\ (pc = "estimate_units_per_container" /\ tire_cbm # None /\ RatIsPos(Val(tire_cbm))) =>
       \A j \in 1..2 :
         /\ ret[j] # None
         /\ Val(ret[j]) \in Nat
         /\ Val(ret[j]) >= 1 <=> RatLe(Val(tire_cbm), usable_cbm[j])
  /\ (pc = "analysis" /\ RatIsPos(ret.cbm_per_tire)) =>
       /\ ret.units_20 \in Nat
       /\ ret.units_40 \in Nat
       /\ ret.units_20 >= 1 <=> RatLe(ret.cbm_per_tire, Rat(28, 1))
       /\ ret.units_40 >= 1 <=> RatLe(ret.cbm_per_tire, Rat(68, 1))

\* estimate_units_per_container has returned 0 units for the 20DC and some
\* units for the 40HC: the tire fits the larger container only.
C6_Witness ==
  /\ pc = "estimate_units_per_container"
  /\ tire_cbm # None
  /\ RatIsPos(Val(tire_cbm))
  /\ RatLt(usable_cbm[1], Val(tire_cbm))
  /\ ret[1] = Some(0)
  /\ ret[2] # None
  /\ Val(ret[2]) >= 1

IsFloorOf(units, U, v) ==
  /\ RatLe(RatMul(RatOfInt(units), v), U)
  /\ RatLt(U, RatMul(RatOfInt(units + 1), v))

C8_UnitsAreFloor ==
  /\ (pc = "estimate_units_per_container" /\ tire_cbm # None /\ RatIsPos(Val(tire_cbm))) =>
       \A j \in 1..2 : ret[j] # None /\ IsFloorOf(Val(ret[j]), usable_cbm[j], Val(tire_cbm))
  /\ (pc = "analysis" /\ RatIsPos(ret.cbm_per_tire)) =>
       /\ IsFloorOf(ret.units_20, Rat(28, 1), ret.cbm_per_tire)
       /\ IsFloorOf(ret.units_40, Rat(68, 1), ret.cbm_per_tire)

StatedDiameterMm(W, A, R) ==
  RatAdd(RatMul(R, Rat(254, 10)), RatMul(Rat(2, 1), RatMul(W, RatDiv(A, Rat(100, 1)))))

\* pi * (D / 2000)^2 * (W / 1000)
StatedVolumeM3(D, W) ==
  RatMul(PiFloat, RatMul(RatMul(RatDiv(D, Rat(2000, 1)), RatDiv(D, Rat(2000, 1))),
                         RatDiv(W, Rat(1000, 1))))

\* The volume calculate_tire_cbm reports for a geometry: the stated
\* volume to 3 decimals.
StatedRounded(W, A, R) == Round3(StatedVolumeM3(StatedDiameterMm(W, A, R), W))

(***************************************************************************)
(* C10: for every parsed geometry (W mm, A percent, R inches) the overall  *)
(* diameter is R * 25.4 + 2 * W * (A / 100) and the raw volume is          *)
(* pi * (diameter / 2000)^2 * (W / 1000) m3: estimate_geometry_and_cbm     *)
(* returns this diameter and 1.25 times this volume, calculate_tire_cbm    *)
(* returns this volume to 3 decimals, for the geometry of the label (the   *)
(* written W, A, R of a metric label; the width in mm, 85 and the rim of   *)
(* an imperial label).                                                     *)
(***************************************************************************)
C10_StatedFormulas ==
  /\ (pc = "estimate_geometry_and_cbm" /\ ret.section_width_mm # None) =>
       /\ RatEq(Val(ret.overall_diameter_mm),
                StatedDiameterMm(Val(ret.section_width_mm), Val(ret.aspect_ratio),
                                 Val(ret.rim_diameter_inch)))
       /\ RatEq(Val(ret.cbm_per_tire),
                RatMul(Rat(125, 100),
                       StatedVolumeM3(StatedDiameterMm(Val(ret.section_width_mm),
                                                       Val(ret.aspect_ratio),
                                                       Val(ret.rim_diameter_inch)),
                                      Val(ret.section_width_mm))))
  /\ (pc = "calculate_tire_cbm" /\ MetricLabelWith(size_string, 0, 0)) =>
       /\ ret # None
       /\ RatEq(Val(ret), StatedRounded(RatOfInt(Written(size_string, 1, 3)),
                                        RatOfInt(Written(size_string, 5, 2)),
                                        RatOfInt(Written(size_string, 8, 2))))
  /\ (pc = "calculate_tire_cbm" /\ ImperialLabel(size_string)) =>
       /\ ret # None
       /\ RatEq(Val(ret),
                StatedRounded(Rat((10 * Written(size_string, 1, 2) + DigitVal(size_string[4])) * 254, 100),
                              Rat(85, 1),
                              RatOfInt(Written(size_string, 6, 2))))

\* estimate_geometry_and_cbm has returned a positive volume for a metric
\* label.
C10_Witness ==
  /\ pc = "estimate_geometry_and_cbm"
  /\ MetricLabelWith(size_string, 0, 0)
  /\ ret.cbm_per_tire # None
  /\ RatIsPos(Val(ret.cbm_per_tire))
  /\ RatIsPos(Val(ret.aspect_ratio))

(***************************************************************************)
(* C11: one volume policy: for every label both estimators accept, the     *)
(* cbm_per_tire of estimate_geometry_and_cbm and the volume of             *)
(* calculate_tire_cbm are the same up to the rounding to 3 decimals.       *)
(***************************************************************************)
C11_OneVolumePolicy ==
  (/\ pc = "calculate_tire_cbm"
   /\ ret # None
   /\ estimate_geometry_and_cbm(size_string).cbm_per_tire # None) =>
    RatEq(Val(ret), Round3(Val(estimate_geometry_and_cbm(size_string).cbm_per_tire)))

(***************************************************************************)
(* C12: parsing is insensitive to whitespace and letter case: a label and  *)
(* the label without its whitespace, in upper case, have the same result   *)
(* of parse_tire_size and the same volume of calculate_tire_cbm.           *)
(***************************************************************************)
C12_WhitespaceAndCase ==
  /\ pc = "parse_tire_size" => ret = parse_tire_size(Normalized(size_string))
  /\ pc = "calculate_tire_cbm" => ret = calculate_tire_cbm(Normalized(size_string))

(***************************************************************************)
(* The rows of a CSV file as the claims describe them.                     *)
(***************************************************************************)
\* The cell holds something other than whitespace.
HasText(cell) == cell # None /\ \E i \in 1..Len(Val(cell)) : ~IsSpace(Val(cell)[i])

\* The row has a brand and a size.
HasBrandAndSize(r) == HasText(r.brand) /\ HasText(r.size_string)

\* The numeric columns of the row convert.
NumericValid(r) == CsvNumber(r.exw_price) # None

\* The product added last to the session of the running import.
LastAdded == session[Len(session)]

(***************************************************************************)
(* C13: a row whose label does not parse never aborts the import: every    *)
(* row with valid numeric columns, a brand and a size adds exactly one     *)
(* Product, whether its label parses or not, with the tire_cbm of the CSV  *)
(* when one is given and 0.0 when none is given and the label does not     *)
(* parse; the loop goes on to the next rows, and the commit stores every   *)
(* product added.                                                          *)
(***************************************************************************)
C13_BadLabelNeverAborts ==
  [][/\ (pc = "import_rows" /\ row_i' = row_i + 1
         /\ HasBrandAndSize(Val(row')) /\ NumericValid(Val(row'))) =>
          /\ pc' = "import_rows"
          /\ Len(session') = Len(session) + 1
          /\ SubSeq(session', 1, Len(session)) = session
          /\ session'[Len(session')].size_string = Strip(Val(Val(row').size_string))
          /\ ~RatIsZero(CsvCbm(Val(row').tire_cbm)) =>
               session'[Len(session')].tire_cbm = Some(CsvCbm(Val(row').tire_cbm))
          /\ (RatIsZero(CsvCbm(Val(row').tire_cbm))
              /\ calculate_tire_cbm(Strip(Val(Val(row').size_string))) = None) =>
               session'[Len(session')].tire_cbm = Some(Rat(0, 1))
     /\ (pc = "import_rows" /\ pc' = "import_products_csv") =>
          /\ Len(db') = Len(db) + Len(session)
          /\ \A k \in 1..Len(session) :
               /\ db'[Len(db) + k].size_string = session[k].size_string
               /\ db'[Len(db) + k].tire_cbm = session[k].tire_cbm]_vars

\* The import has committed two products, the first of a label that does
\* not parse.
C13_Witness ==
  /\ pc = "import_products_csv"
  /\ created = 2
  /\ Len(db) = 2
  /\ calculate_tire_cbm(db[1].size_string) = None
  /\ RatIsZero(Val(db[1].tire_cbm))

(***************************************************************************)
(* C16: a supplied non-zero tire_cbm is never overwritten: in              *)
(* create_product, update_product and import_products_csv the stored       *)
(* tire_cbm is the supplied value when that is not zero, is                *)
(* calculate_tire_cbm(size_string) when the supplied value is zero or      *)
(* missing and the label parses, and stays 0.0 when the supplied value is  *)
(* zero and the label does not parse.                                      *)
(***************************************************************************)
StoredAsClaimed(stored, supplied, label) ==
  /\ ~RatIsZero(supplied) => stored = Some(supplied)
  /\ (RatIsZero(supplied) /\ calculate_tire_cbm(label) # None) =>
       stored = calculate_tire_cbm(label)
  /\ (RatIsZero(supplied) /\ calculate_tire_cbm(label) = None) =>
       (stored # None /\ RatIsZero(Val(stored)))

C16_SuppliedCbmKept ==
  /\ (pc \in {"create_product", "update_product"} /\ ret # None) =>
       /\ StoredAsClaimed(Val(ret).tire_cbm, Val(tire_cbm), size_string)
       /\ Val(ret).size_string = size_string
       /\ db[Val(ret).id] = Val(ret)
  /\ (pc = "import_rows" /\ row # None /\ HasBrandAndSize(Val(row))) =>
       /\ session # <<>>
       /\ StoredAsClaimed(LastAdded.tire_cbm, CsvCbm(Val(row).tire_cbm), LastAdded.size_string)

\* update_product has stored the volume of the form for a label that
\* calculate_tire_cbm recognises.
C16_Witness ==
  /\ pc = "update_product"
  /\ ret # None
  /\ RatIsPos(Val(tire_cbm))
  /\ calculate_tire_cbm(size_string) # None
  /\ Val(ret).tire_cbm = tire_cbm
  /\ Val(ret).tire_cbm # calculate_tire_cbm(size_string)

(***************************************************************************)
(* C20: import_products_csv accounts for every row exactly once: whatever  *)
(* the rows read, created + skipped is their number, the last row was      *)
(* skipped when its brand or its size is empty after stripping and created *)
(* otherwise, and the products added are as many as created.               *)
(***************************************************************************)
C20_EveryRowCountedOnce ==
  (pc \in {"import_rows", "import_products_csv", "import_products_csv_raised"}) =>
    /\ created + skipped = row_i
    /\ (row # None /\ HasBrandAndSize(Val(row))) => created >= 1
    /\ (row # None /\ ~HasBrandAndSize(Val(row))) => skipped >= 1
    /\ pc = "import_rows" => Len(session) = created
    /\ pc = "import_products_csv" => Len(db) >= created

(***************************************************************************)
(* C15: one usable volume per container type: the units that analysis and  *)
(* estimate_units_per_container (called with its defaults) compute are the *)
(* units for the module-level CONTAINER_20FT_CBM and CONTAINER_40FT_CBM,   *)
(* the three places holding the same value for the 20-foot container and   *)
(* the same value for the 40-foot container.                               *)
(***************************************************************************)
\* The three places agree on both container types.
SameUsableVolumes ==
  /\ DEFAULT_USABLE_CBM_20DC = CBM_20 /\ CBM_20 = CONTAINER_20FT_CBM
  /\ DEFAULT_USABLE_CBM_40HC = CBM_40 /\ CBM_40 = CONTAINER_40FT_CBM

C15_OneUsableVolume ==
  /\ (pc = "analysis" /\ RatIsPos(ret.cbm_per_tire)) =>
       /\ SameUsableVolumes
       /\ ret.units_20 = UnitsTrunc(RatOfInt(CONTAINER_20FT_CBM), ret.cbm_per_tire)
       /\ ret.units_40 = UnitsTrunc(RatOfInt(CONTAINER_40FT_CBM), ret.cbm_per_tire)
  /\ (/\ pc = "estimate_units_per_container"
      /\ usable_cbm = <<RatOfInt(DEFAULT_USABLE_CBM_20DC), RatOfInt(DEFAULT_USABLE_CBM_40HC)>>
      /\ ~NoVolume(tire_cbm)) =>
       /\ SameUsableVolumes
       /\ ret = estimate_units_per_container(tire_cbm, RatOfInt(CONTAINER_20FT_CBM),
                                             RatOfInt(CONTAINER_40FT_CBM))

(***************************************************************************)
(* C17: effective_units_per_20dc and effective_units_per_40hc return the   *)
(* manual load whenever it is not None, a manual 0 included, and the       *)
(* estimated load (possibly None) only when the manual load is None; each  *)
(* container type is resolved from its own two columns.                    *)
(***************************************************************************)
ManualFirst(result, manual, estimated) ==
  /\ manual # None => result = manual
  /\ manual = None => result = estimated

C17_ManualOverridesFirst ==
  /\ pc = "effective_units_per_20dc" =>
       ManualFirst(ret, product.units_per_20dc_manual, product.units_per_20dc_estimated)
  /\ pc = "effective_units_per_40hc" =>
       ManualFirst(ret, product.units_per_40hc_manual, product.units_per_40hc_estimated)

\* A manual 0 over an estimate of 12, with the other container type set
\* the other way round.
C17_Witness ==
  /\ pc = "effective_units_per_20dc"
  /\ product.units_per_20dc_manual = Some(0)
  /\ product.units_per_20dc_estimated = Some(12)
  /\ product.units_per_40hc_manual = None
  /\ product.units_per_40hc_estimated = Some(5)
  /\ ret = Some(0)

(***************************************************************************)
(* C19: in analysis the best offer of a product has the minimum            *)
(* selling_price among its offers with selling_price > 0, and offers_count *)
(* counts those offers; profit_per_tire = best_price - (exw_price +        *)
(* packing_cost) and margin_percent = profit / best_price * 100 are        *)
(* computed when the best offer's currency is empty or is the product's    *)
(* currency (USD when it has none), and are None otherwise and when the    *)
(* product has no valid offer.                                             *)
(***************************************************************************)
\* The offers of the product priced above 0.
Priced(offers) ==
  {i \in 1..Len(offers) :
     /\ offers[i].selling_price # None
     /\ RatIsPos(Val(offers[i].selling_price))}

\* Offer i is a cheapest of the offers in the set among.
Cheapest(offers, among, i) ==
  /\ i \in among
  /\ \A j \in among : RatLe(Val(offers[i].selling_price), Val(offers[j].selling_price))

\* The currency of the best offer is empty or the product's.
Comparable(best_currency, p) ==
  \/ best_currency \in {None, Some("")}
  \/ best_currency = (IF p.currency \in {None, Some("")} THEN Some("USD") ELSE p.currency)

NoBestOffer(r) ==
  /\ r.best_price = None
  /\ r.best_currency = None
  /\ r.profit_per_tire = None
  /\ r.margin_percent = None

ProfitAsClaimed(r, p) ==
  IF Comparable(r.best_currency, p)
  THEN /\ r.profit_per_tire =
            Some(FloatSub(Val(r.best_price),
                          ToDouble(RatAdd(OrZero(p.exw_price), OrZero(p.packing_cost)))))
       /\ r.margin_percent = Some(MarginPercent(Val(r.profit_per_tire), Val(r.best_price)))
  ELSE r.profit_per_tire = None /\ r.margin_percent = None

BestOfferAsClaimed(r, p, priced) ==
  /\ r.offers_count = Cardinality(priced)
  /\ IF priced = {} THEN NoBestOffer(r)
     ELSE /\ \E i \in priced :
               /\ Cheapest(p.competitor_prices, priced, i)
               /\ r.best_price = p.competitor_prices[i].selling_price
               /\ r.best_currency = p.competitor_prices[i].currency
          /\ ProfitAsClaimed(r, p)

C19_BestOfferAndProfit ==
  pc = "analysis" /\ product # None =>
    BestOfferAsClaimed(ret, product, Priced(product.competitor_prices))

\* Two priced offers, the cheaper below the factory cost: a loss.
C19_Witness ==
  /\ pc = "analysis" /\ product # None
  /\ ret.offers_count = 2
  /\ ret.best_price = product.competitor_prices[2].selling_price
  /\ ret.best_price # product.competitor_prices[1].selling_price
  /\ ret.profit_per_tire # None
  /\ Val(ret.profit_per_tire).neg
  /\ Val(ret.margin_percent).neg

(***************************************************************************)
(* C22: the two size parsers recognise the same labels: for every string,  *)
(* calculate_tire_cbm returns None if and only if parse_tire_size returns  *)
(* (None, None, None).                                                     *)
(***************************************************************************)
C22_SameLabelsRecognised ==
  /\ pc = "calculate_tire_cbm" =>
       (ret = None <=> parse_tire_size(size_string) = <<None, None, None>>)
  /\ pc = "parse_tire_size" =>
       (ret = <<None, None, None>> <=> calculate_tire_cbm(size_string) = None)

(***************************************************************************)
(* C21: referential integrity of competitor prices: after any sequence of  *)
(* create_product, delete_product, create_competitor, update_competitor,   *)
(* delete_competitor and import_competitor_from_search, every stored       *)
(* CompetitorPrice has the product_id of a stored Product.                 *)
(***************************************************************************)
C21_CompetitorsReferToProducts ==
  \A k \in 1..Len(competitor_prices) :
    \E j \in 1..Len(db) : db[j].id = competitor_prices[k].product_id
====
